---- MODULE Spec2Model ----
(***************************************************************************)
(* Model of backend/main.py of KMLverification: the pole-number extractor  *)
(* extract_number, the normaliser process_kml_file and the upload handler  *)
(* upload_kml.  Text is a sequence of one-character strings.               *)
(***************************************************************************)
EXTENDS Integers, Sequences, FiniteSets, TLC

VARIABLES id_str, pc, ret, via, request, response, processed, returned

vars == <<id_str, pc, ret, via, request, response, processed, returned>>

(* ------------------------------ bounds --------------------------------- *)
MaxLen == 4
MaxRecords == 3
MaxUploads == 2

(* --------------------------- character classes ------------------------- *)
Lower == <<"a", "e", "l", "o", "p", "r", "x">>
Upper == <<"A", "E", "L", "O", "P", "R", "X">>
LowerLetters == {Lower[i] : i \in 1..Len(Lower)}
UpperLetters == {Upper[i] : i \in 1..Len(Upper)} \cup {"B", "C", "S"}
Letters == LowerLetters \cup UpperLetters
Digits == {"0", "1", "2", "3", "4", "5", "6", "7", "8", "9"}
Whitespace == {" ", "\t"}
Symbols == {"#", "-"}

DigitVal(c) ==
  CASE c = "0" -> 0 [] c = "1" -> 1 [] c = "2" -> 2 [] c = "3" -> 3
    [] c = "4" -> 4 [] c = "5" -> 5 [] c = "6" -> 6 [] c = "7" -> 7
    [] c = "8" -> 8 [] c = "9" -> 9

DigitChar(d) == CHOOSE c \in Digits : DigitVal(c) = d

MinOf(S) == CHOOSE m \in S : \A k \in S : m <= k
MaxOf(S) == CHOOSE m \in S : \A k \in S : k <= m

(* ------------------------ Python string methods ------------------------ *)
\* str.strip(): drop leading and trailing whitespace
strip(s) ==
  LET keep == {i \in 1..Len(s) : s[i] \notin Whitespace}
  IN  IF keep = {} THEN <<>> ELSE SubSeq(s, MinOf(keep), MaxOf(keep))

upperChar(c) ==
  IF c \in LowerLetters
    THEN Upper[CHOOSE i \in 1..Len(Lower) : Lower[i] = c]
    ELSE c

\* str.upper()
upper(s) == [i \in 1..Len(s) |-> upperChar(s[i])]

\* str.replace(' ', ''): removes the space character only (a tab stays)
replace_space(s) == SelectSeq(s, LAMBDA c : c # " ")

\* str.isalpha(): non-empty and every character alphabetic
isalpha(s) == Len(s) > 0 /\ \A i \in 1..Len(s) : s[i] \in Letters

\* last index of the run of characters of class C that starts at i
RunEnd(s, i, C) ==
  MaxOf({j \in i..Len(s) : \A k \in i..j : s[k] \in C})

NonSpace == Letters \cup Digits \cup Symbols

RECURSIVE splitFrom(_, _)
splitFrom(s, i) ==
  IF i > Len(s) THEN <<>>
  ELSE IF s[i] \in Whitespace THEN splitFrom(s, i + 1)
  ELSE LET j == RunEnd(s, i, NonSpace)
       IN  <<SubSeq(s, i, j)>> \o splitFrom(s, j + 1)

\* str.split(): the maximal runs of non-whitespace characters, in order
split(s) == splitFrom(s, 1)

\* re_search returning the last digit run instead of the first
re_search_last(s) ==
  LET ds == {i \in 1..Len(s) : s[i] \in Digits}
      st == {i \in ds : i = 1 \/ s[i - 1] \notin Digits}
  IN  IF ds = {} THEN <<>>
      ELSE SubSeq(s, MaxOf(st), RunEnd(s, MaxOf(st), Digits))

\* re.search(r'\d+', s).group(): the first maximal digit run; <<>> stands
\* for "no match" (a match of \d+ is never empty)
re_search(s) ==
  LET ds == {i \in 1..Len(s) : s[i] \in Digits}
  IN  IF ds = {} THEN <<>>
      ELSE SubSeq(s, MinOf(ds), RunEnd(s, MinOf(ds), Digits))

\* re.findall(r'\d+', s): every maximal digit run, left to right
RECURSIVE findallFrom(_, _)
findallFrom(s, i) ==
  IF i > Len(s) THEN <<>>
  ELSE IF s[i] \notin Digits THEN findallFrom(s, i + 1)
  ELSE LET j == RunEnd(s, i, Digits)
       IN  <<SubSeq(s, i, j)>> \o findallFrom(s, j + 1)

re_findall(s) == findallFrom(s, 1)

\* str.lstrip('0')
lstrip0(s) ==
  LET nz == {i \in 1..Len(s) : s[i] # "0"}
  IN  IF nz = {} THEN <<>> ELSE SubSeq(s, MinOf(nz), Len(s))

\* int(digits): decimal value of a digit string (Python ints do not wrap)
RECURSIVE int(_)
int(s) ==
  IF Len(s) = 0 THEN 0
  ELSE int(SubSeq(s, 1, Len(s) - 1)) * 10 + DigitVal(s[Len(s)])

\* int(number_str.lstrip('0') or 0)
to_number(number_str) ==
  LET t == lstrip0(number_str) IN IF t = <<>> THEN 0 ELSE int(t)

\* str zero-padded to three digits (f"{n:03d}")
RECURSIVE str_padded(_)
str_padded(n) ==
  LET d == IF n < 10 THEN <<DigitChar(n)>>
           ELSE str_padded(n \div 10) \o <<DigitChar(n % 10)>>
  IN  IF n < 10 THEN <<"0", "0">> \o d ELSE d

\* str(n) for n >= 0: the decimal digits of n
RECURSIVE str(_)
str(n) ==
  IF n < 10 THEN <<DigitChar(n)>>
  ELSE str(n \div 10) \o <<DigitChar(n % 10)>>

(* ------------------------------ inputs --------------------------------- *)
Sigma == {"P", "e", " ", "\t", "0", "7", "#"}

Strings == UNION {[1..n -> Sigma] : n \in 0..MaxLen}

\* the labels the documentation of the extractor names
POLE_12_SPARE == <<"P","O","L","E","-","1","2"," ","S","P","A","R","E">>
Pole_007 == <<"P","o","l","e"," ","0","0","7">>
P007 == <<"P","0","0","7">>
ABC == <<"A","B","C">>
POLE_HASH_7 == <<"P","O","L","E","#","7">>
Pole_7 == <<"P","o","l","e"," ","7">>
Pole_7_Spare == <<"P","o","l","e"," ","7"," ","S","p","a","r","e">>
A_B_102_x9 == <<"A"," ","B","-","1","0","2"," ","x","9">>

Examples ==
  { POLE_12_SPARE, Pole_007, P007, <<"0","0","7">>, <<"0","0","0","0">>,
    ABC, <<" "," "," ">>, POLE_HASH_7, Pole_7_Spare, A_B_102_x9 }

StrArg(t) == [kind |-> "str", text |-> t, items |-> <<>>]

\* values extract_number can be called with: text, None, float('nan'), an
\* int, and lists (array-likes) of one or two scalars
ItemKinds == {"None", "int"}
Args ==
  {StrArg(t) : t \in Strings \cup Examples}
    \cup {[kind |-> k, text |-> <<>>, items |-> <<>>] : k \in {"None", "nan", "int"}}
    \cup {[kind |-> "list", text |-> <<>>, items |-> l] :
            l \in UNION {[1..n -> ItemKinds] : n \in 1..2}}

(* --------------------------- extract_number ---------------------------- *)
\* outcomes of `pd.isna(id_str) or ...` used as a condition: a scalar
\* answers True/False; a list is answered element-wise with an array, whose
\* truth value is its only element's, raises ValueError for two or more
\* elements, and for none is False or ValueError depending on the numpy build
\* (the empty list is not among Args)
isna_truth(x) ==
  CASE x.kind \in {"None", "nan"} -> {"True"}
    [] x.kind \in {"str", "int"} -> {"False"}
    [] x.kind = "list" /\ Len(x.items) = 0 -> {"False", "ValueError"}
    [] x.kind = "list" /\ Len(x.items) = 1 ->
         {IF x.items[1] = "None" THEN "True" ELSE "False"}
    [] OTHER -> {"ValueError"}

\* scan_parts accepting only parts that are digits throughout (part.isdigit())
scan_parts_isdigit(parts) ==
  LET hits == {i \in 1..Len(parts) :
                 \A k \in 1..Len(parts[i]) : parts[i][k] \in Digits}
  IN  IF hits = {} THEN <<>> ELSE parts[MinOf(hits)]

\* scan_parts with the last digit-bearing part deciding
scan_parts_last(parts) ==
  LET hits == {i \in 1..Len(parts) : re_search(parts[i]) # <<>>}
  IN  IF hits = {} THEN <<>> ELSE re_search(parts[MaxOf(hits)])

\* for part in parts: the first part holding a digit run decides; <<>> when
\* the loop ends without returning
scan_parts(parts) ==
  LET hits == {i \in 1..Len(parts) : re_search(parts[i]) # <<>>}
  IN  IF hits = {} THEN <<>> ELSE re_search(parts[MinOf(hits)])

\* lines 79-99, for an argument that is text
extract_text(raw) ==
  LET s == upper(strip(raw))
      number_str == scan_parts(split(s))
      matches == re_findall(s)
  IN  IF s = <<>> \/ isalpha(replace_space(s))
        THEN [ret |-> 0, via |-> "line82"]
      ELSE IF number_str # <<>>
        THEN [ret |-> to_number(number_str), via |-> "line91"]
      ELSE IF matches # <<>>
        THEN [ret |-> to_number(matches[1]), via |-> "line97"]
      ELSE [ret |-> 0, via |-> "line99"]

\* the value extract_number returns for a text argument
extract_number(text) == extract_text(text).ret

\* one call of extract_number on the argument id_str
ExtractCall ==
  /\ pc = "call"
  /\ \E t \in isna_truth(id_str) :
       IF t = "ValueError"
         THEN pc' = "raise" /\ ret' = -1 /\ via' = "ValueError"
       ELSE IF t = "True" \/ id_str.kind # "str"
         THEN pc' = "return" /\ ret' = 0 /\ via' = "line77"
       ELSE /\ pc' = "return"
            /\ ret' = extract_text(id_str.text).ret
            /\ via' = extract_text(id_str.text).via
  /\ UNCHANGED <<id_str, request, response, processed, returned>>

(* ------------------------- parse_kml_points_to_df ---------------------- *)
\* names of the placemarks of the uploaded documents
LabelPool == {Pole_7, P007, ABC, Pole_7_Spare, A_B_102_x9}

\* a placemark is usable when it has both a name and a point with at least
\* two coordinate parts (line 56, line 61); the others are skipped
Placemarks ==
  {[name |-> l, usable |-> TRUE] : l \in LabelPool}
    \cup {[name |-> <<"A","B","C">>, usable |-> FALSE]}

Malformed == [wellformed |-> FALSE, placemarks |-> <<>>]

Usable(l) == [name |-> l, usable |-> TRUE]

\* the end-to-end scenario of the documentation: keys [7, 7, 0, 7]
ScenarioDoc ==
  [wellformed |-> TRUE,
   placemarks |-> <<Usable(Pole_7), Usable(P007), Usable(ABC), Usable(Pole_7_Spare)>>]

\* five records that all key to 0
FiveZerosDoc ==
  [wellformed |-> TRUE, placemarks |-> [i \in 1..5 |-> Usable(ABC)]]

\* two keys, each on several records, interleaved: keys [102, 7, 102, 7, 102]
InterleavedDoc ==
  [wellformed |-> TRUE,
   placemarks |-> <<Usable(A_B_102_x9), Usable(Pole_7), Usable(A_B_102_x9),
                    Usable(P007), Usable(A_B_102_x9)>>]

\* labels whose keys have trailing and inner zeros: keys [12, 70, 700, 1002]
ZerosInKeysDoc ==
  [wellformed |-> TRUE,
   placemarks |-> <<Usable(POLE_12_SPARE), Usable(<<"7","0">>),
                    Usable(<<"p","-","7","0","0">>),
                    Usable(<<" ","0","1","0","0","2"," ">>)>>]

Documents ==
  {Malformed, ScenarioDoc, FiveZerosDoc, InterleavedDoc, ZerosInKeysDoc} \cup
  {[wellformed |-> TRUE, placemarks |-> ps] :
     ps \in UNION {[1..n -> Placemarks] : n \in 0..MaxRecords}}

Requests ==
  {[kml |-> TRUE, doc |-> d, csv_ok |-> c] : d \in Documents, c \in BOOLEAN}
    \cup {[kml |-> FALSE, doc |-> Malformed, csv_ok |-> TRUE]}

HTTPException(status_code, detail) ==
  [type |-> "HTTPException", status |-> status_code, detail |-> detail]

OSError == [type |-> "OSError", status |-> 0, detail |-> "to_csv failed"]

\* the rows of the DataFrame, in document order; index is the row label
parse_kml_points_to_df(doc) ==
  LET data == SelectSeq(doc.placemarks, LAMBDA pm : pm.usable)
  IN  [i \in 1..Len(data) |-> [index |-> i - 1, ID |-> strip(data[i].name)]]

(* --------------------------- process_kml_file -------------------------- *)
\* lines 111-115: the columns number and formatted_ID
add_columns(df) ==
  [i \in 1..Len(df) |->
     LET number == extract_number(df[i].ID)
     IN  [index |-> df[i].index, ID |-> df[i].ID, number |-> number,
          formatted_ID |-> IF number > 0 THEN <<"P">> \o str(number)
                           ELSE upper(strip(df[i].ID))]]

\* sort_values descending (ascending=False)
RECURSIVE orders_desc(_, _)
orders_desc(df, S) ==
  IF S = {} THEN {<<>>}
  ELSE LET m == MaxOf({df[i].number : i \in S})
       IN  UNION { {<<df[i]>> \o r : r \in orders_desc(df, S \ {i})} :
                   i \in {j \in S : df[j].number = m} }

\* df.sort_values(by='number'): the default kind is quicksort, which is not
\* a stable sort, so rows ascend by number and rows with equal numbers may
\* come out in any order
RECURSIVE orders(_, _)
orders(df, S) ==
  IF S = {} THEN {<<>>}
  ELSE LET m == MinOf({df[i].number : i \in S})
       IN  UNION { {<<df[i]>> \o r : r \in orders(df, S \ {i})} :
                   i \in {j \in S : df[j].number = m} }

\* the sorted frame discarded (sort_values is not in place)
sort_values_unsorted(df) == {df}

sort_values(df) == orders(df, 1..Len(df))

\* df[df.duplicated(subset=['number'], keep=False)]
duplicated_rows(df) ==
  SelectSeq(df, LAMBDA r :
    Cardinality({i \in 1..Len(df) : df[i].number = r.number}) >= 2)

\* Series.unique(): the distinct values in order of first appearance
RECURSIVE unique(_)
unique(ns) ==
  IF ns = <<>> THEN <<>>
  ELSE LET front == SubSeq(ns, 1, Len(ns) - 1)
           last == ns[Len(ns)]
       IN  IF \E i \in 1..Len(front) : front[i] = last
             THEN unique(front)
             ELSE Append(unique(front), last)

\* duplicate_numbers without the filter of line 125
duplicate_numbers_keep0(df) ==
  LET dd == duplicated_rows(df)
  IN  unique([i \in 1..Len(dd) |-> dd[i].number])

\* lines 121-125
duplicate_numbers(df) ==
  LET dd == duplicated_rows(df)
      nums == unique([i \in 1..Len(dd) |-> dd[i].number])
  IN  SelectSeq(nums, LAMBDA num : num > 0)

PreviewLen == 10

head(df) == SubSeq(df, 1, IF Len(df) < PreviewLen THEN Len(df) ELSE PreviewLen)

summary(df) ==
  [total_poles |-> Len(df),
   duplicate_numbers |-> duplicate_numbers(df),
   duplicate_count |-> Len(duplicate_numbers(df)),
   sample_data |-> head(df)]

\* df.empty (line 107)
empty(df) == Len(df) = 0

\* the outcomes of process_kml_file: an exception, or (df, result)
process_kml_file(doc) ==
  IF ~doc.wellformed
    THEN {[exc |-> <<HTTPException(400, "Error parsing KML")>>, value |-> <<>>]}
  ELSE IF empty(parse_kml_points_to_df(doc))
    THEN {[exc |-> <<HTTPException(400, "No valid placemarks found in KML file")>>,
           value |-> <<>>]}
  ELSE {[exc |-> <<>>, value |-> <<[df |-> df, result |-> summary(df)]>>] :
          df \in sort_values(add_columns(parse_kml_points_to_df(doc)))}

(* ------------------------------ upload_kml ----------------------------- *)
\* the handler without the re-raise of lines 264-265
except_handler_500(e) == HTTPException(500, "Error processing file")

\* lines 264-269: an HTTPException is re-raised, anything else becomes a 500
except_handler(e) ==
  IF e.type = "HTTPException" THEN e
  ELSE HTTPException(500, "Error processing file")

\* no request is being handled
NoRequest == [kml |-> FALSE, doc |-> Malformed, csv_ok |-> FALSE]
NoResponse == [status |-> 0, detail |-> "", body |-> <<>>]

Failure(e) == [status |-> e.status, detail |-> e.detail, body |-> <<>>]

\* one request handled by upload_kml, from the filename check to the
\* response or the raised HTTPException; processed lists the names of the
\* CSV files in PROCESSED_DIR (a fresh name per file, standing for the uuid)
Upload ==
  /\ response = NoResponse
  /\ Len(processed) < MaxUploads
  /\ \E req \in Requests :
       /\ request' = req
       /\ IF ~req.kml
            THEN /\ response' = Failure(HTTPException(400, "File must be a KML file"))
                 /\ UNCHANGED <<processed>>
                 /\ returned' = <<>>
            ELSE \E out \in process_kml_file(req.doc) :
                   /\ returned' = out.value
                   /\ IF out.exc # <<>>
                        THEN /\ response' = Failure(except_handler(out.exc[1]))
                             /\ UNCHANGED <<processed>>
                      ELSE IF ~req.csv_ok
                        THEN /\ response' = Failure(except_handler(OSError))
                             /\ UNCHANGED <<processed>>
                      ELSE /\ processed' = Append(processed, Len(processed) + 1)
                           /\ response' =
                                [status |-> 200,
                                 detail |-> "File processed successfully",
                                 body |-> <<[csv_filename |-> Len(processed) + 1,
                                             processing_results |-> out.value[1].result]>>]
  /\ UNCHANGED <<id_str, pc, ret, via>>

\* the response leaves the handler; nothing of the request is retained
Deliver ==
  /\ response # NoResponse
  /\ request' = NoRequest /\ response' = NoResponse /\ returned' = <<>>
  /\ UNCHANGED <<id_str, pc, ret, via, processed>>

(* --------------------------- specifications ---------------------------- *)
Init ==
  /\ id_str = StrArg(<<>>) /\ pc = "idle" /\ ret = -1 /\ via = ""
  /\ request = NoRequest /\ response = NoResponse
  /\ processed = <<>> /\ returned = <<>>

Next == Upload \/ Deliver

Spec == Init /\ [][Next]_vars

InitExtract ==
  /\ id_str \in Args /\ pc = "call" /\ ret = -1 /\ via = ""
  /\ request = NoRequest /\ response = NoResponse
  /\ processed = <<>> /\ returned = <<>>

NextExtract == ExtractCall

SpecExtract == InitExtract /\ [][NextExtract]_vars

(* ======================= properties: extract_number ==================== *)
HasDigit(t) == \E i \in 1..Len(t) : t[i] \in Digits

\* numeric value of the digits t[a..b]; leading zeros contribute nothing
RECURSIVE RunValue(_, _, _)
RunValue(t, a, b) ==
  IF a > b THEN 0 ELSE RunValue(t, a, b - 1) * 10 + DigitVal(t[b])

\* value of the first contiguous digit run of t, 0 when t has no digit
FirstRunValue(t) ==
  IF ~HasDigit(t) THEN 0
  ELSE LET a == CHOOSE i \in 1..Len(t) :
                  t[i] \in Digits /\ \A k \in 1..(i - 1) : t[k] \notin Digits
           b == CHOOSE j \in a..Len(t) :
                  /\ \A k \in a..j : t[k] \in Digits
                  /\ (j = Len(t) \/ t[j + 1] \notin Digits)
       IN  RunValue(t, a, b)

\* the whitespace-delimited tokens of t, as <<first, last>> index pairs
TokenSpans(t) ==
  {sp \in (1..Len(t)) \X (1..Len(t)) :
     /\ sp[1] <= sp[2]
     /\ \A k \in sp[1]..sp[2] : t[k] \notin Whitespace
     /\ (sp[1] = 1 \/ t[sp[1] - 1] \in Whitespace)
     /\ (sp[2] = Len(t) \/ t[sp[2] + 1] \in Whitespace)}

DigitTokenSpans(t) ==
  {sp \in TokenSpans(t) : \E k \in sp[1]..sp[2] : t[k] \in Digits}

Returned(t) == pc = "return" /\ id_str = StrArg(t)

\* C1: for every label, the value returned is that of the first digit run
\* of the first whitespace-delimited token (of the trimmed, upper-cased
\* label) that contains a digit, leading zeros stripped; later tokens and
\* later runs do not matter ("POLE-12 SPARE" gives 12, "Pole 007", "P007"
\* and "007" give 7, "0000" gives 0).
C1_FirstDigitTokenWins ==
  /\ (pc = "return" /\ id_str.kind = "str") =>
       LET s == upper(strip(id_str.text))
           dt == DigitTokenSpans(s)
       IN  dt # {} =>
             LET first == CHOOSE sp \in dt : \A o \in dt : sp[1] <= o[1]
             IN  ret = FirstRunValue(SubSeq(s, first[1], first[2]))
  /\ Returned(POLE_12_SPARE) => ret = 12
  /\ (Returned(Pole_007) \/ Returned(P007) \/ Returned(<<"0","0","7">>)) => ret = 7
  /\ Returned(<<"0","0","0","0">>) => ret = 0

\* C1 witness: "POLE-12 SPARE" has been extracted as 12, not from "SPARE"
\* and not a later run
C1_Witness == Returned(POLE_12_SPARE) /\ ret = 12 /\ via = "line91"

\* C2: extract_number is total: it never raises, returns a non-negative
\* integer, and returns 0 when the input is absent/null, not text, empty
\* after trimming, or all alphabetic once the spaces are removed.
C2_TotalNonNegative ==
  /\ pc # "raise"
  /\ pc = "return" =>
       /\ ret >= 0
       /\ ( \/ id_str.kind # "str"
            \/ strip(id_str.text) = <<>>
            \/ LET t == SelectSeq(strip(id_str.text), LAMBDA c : c # " ")
               IN  \A i \in 1..Len(t) : t[i] \in Letters ) => ret = 0

\* C9 as stated: for "POLE#7" the token scan finds nothing and the value
\* comes from the whole-string digit scan (lines 94-97).
C9_FallbackProducesValue ==
  Returned(POLE_HASH_7) => via = "line97"

\* C9 amended: the whole-string scan never produces the returned value; a
\* label with a digit is always answered by the token scan ("POLE#7" gives 7
\* there), and a label that gets past the token scan has no digit and is
\* answered 0 at line 99.
C9_FallbackNeverProducesValue ==
  /\ via # "line97"
  /\ (pc = "return" /\ id_str.kind = "str" /\ HasDigit(id_str.text)) => via = "line91"
  /\ Returned(POLE_HASH_7) => ret = 7
  /\ via = "line99" => ret = 0 /\ ~HasDigit(id_str.text)

\* C9 witness: "POLE#7" has been answered by the token scan
C9_Witness == Returned(POLE_HASH_7) /\ via = "line91" /\ ret = 7

\* C10: for every text input the two-phase scan returns the value of the
\* first contiguous digit run anywhere in the normalized string, leading
\* zeros stripped, or 0 when the string has no digit.
C10_TwoPhaseEqualsSinglePass ==
  (pc = "return" /\ id_str.kind = "str") =>
    ret = FirstRunValue(upper(strip(id_str.text)))

\* C10 witness: a label whose first token has no digit and whose second
\* token has a run embedded in punctuation
C10_Witness == Returned(A_B_102_x9) /\ ret = 102

(* ================== properties: process_kml_file, upload_kml =========== *)
\* the identifiers of the usable placemarks of the request, in document order
InputIDs ==
  LET data == SelectSeq(request.doc.placemarks, LAMBDA pm : pm.usable)
  IN  [i \in 1..Len(data) |-> strip(data[i].name)]

InputKeys == [i \in 1..Len(InputIDs) |-> extract_number(InputIDs[i])]

Range(f) == {f[i] : i \in DOMAIN f}

\* C3: the returned Dataset ascends by numberKey and the sort is stable:
\* records with equal numberKey keep their input order.
C3_StableAscendingSort ==
  returned # <<>> =>
    LET df == returned[1].df
    IN  \A i, j \in 1..Len(df) :
          i < j => \/ df[i].number < df[j].number
                   \/ df[i].number = df[j].number /\ df[i].index < df[j].index

\* C4: duplicateKeys is exactly the set of numberKeys greater than 0 that
\* occur on two or more records, duplicateCount is the number of such keys,
\* key 0 is never reported, and a single record yields duplicateCount 0.
C4_DuplicateKeysExact ==
  returned # <<>> =>
    LET r == returned[1].result
        keys == InputKeys
        dups == {k \in Range(keys) :
                   k > 0 /\ Cardinality({i \in 1..Len(keys) : keys[i] = k}) >= 2}
    IN  /\ Range(r.duplicate_numbers) = dups
        /\ r.duplicate_count = Cardinality(dups)
        /\ 0 \notin Range(r.duplicate_numbers)
        /\ Len(keys) = 1 => r.duplicate_count = 0

\* C4 witness: five records share key 0 and no duplicate is reported
C4_Witness ==
  /\ request.doc = FiveZerosDoc /\ returned # <<>>
  /\ \A i \in 1..5 : returned[1].df[i].number = 0
  /\ returned[1].result.duplicate_numbers = <<>>
  /\ returned[1].result.duplicate_count = 0

Scenario == request.kml /\ request.doc = ScenarioDoc /\ returned # <<>>

IDs(df) == [i \in 1..Len(df) |-> df[i].ID]

\* C5 as stated: for ["Pole 7", "P007", "ABC", "Pole 7 Spare"] the output
\* lists "Pole 7", "P007", "Pole 7 Spare" first and "ABC" last, with
\* duplicateKeys [7], duplicateCount 1 and totalRecords 4.
C5_SevensFirst ==
  Scenario =>
    /\ IDs(returned[1].df) = <<Pole_7, P007, Pole_7_Spare, ABC>>
    /\ returned[1].result.duplicate_numbers = <<7>>
    /\ returned[1].result.duplicate_count = 1
    /\ returned[1].result.total_poles = 4

\* C5 amended: for that input the output lists "ABC" (key 0) first and then
\* the three key-7 records, with duplicateKeys [7], duplicateCount 1 and
\* totalRecords 4.
C5_ZeroFirst ==
  Scenario =>
    LET df == returned[1].df
    IN  /\ Len(df) = 4
        /\ df[1].ID = ABC /\ df[1].number = 0
        /\ {df[i].ID : i \in 2..4} = {Pole_7, P007, Pole_7_Spare}
        /\ \A i \in 2..4 : df[i].number = 7
        /\ returned[1].result.duplicate_numbers = <<7>>
        /\ returned[1].result.duplicate_count = 1
        /\ returned[1].result.total_poles = 4

\* C5 witness: the scenario has been processed and "ABC" leads the output
C5_Witness == Scenario /\ returned[1].df[1].ID = ABC

\* the request whose parsed record sequence is empty
EmptyParsed(req) ==
  /\ req.kml /\ req.doc.wellformed
  /\ \A i \in 1..Len(req.doc.placemarks) : ~req.doc.placemarks[i].usable

\* C6: when the parsed record sequence is empty the request fails with
\* HTTP 400 "No valid placemarks found", no Dataset or Summary is returned,
\* no CSV is written, and the failure is not turned into a 500.
C6_EmptyInputFails ==
  [][ (EmptyParsed(request') /\ request' # request) =>
        /\ response' = [status |-> 400,
                        detail |-> "No valid placemarks found in KML file",
                        body |-> <<>>]
        /\ returned' = <<>>
        /\ processed' = processed ]_vars

\* C6 witness: a document whose placemarks are all unusable has been
\* answered with the 400
C6_Witness ==
  /\ EmptyParsed(request) /\ Len(request.doc.placemarks) > 0
  /\ response.status = 400 /\ response.body = <<>>

\* C7: for every record with numberKey > 0, displayId is "P" followed by the
\* decimal digits of numberKey, and extract_number(displayId) = numberKey.
C7_DisplayIdRoundTrip ==
  returned # <<>> =>
    \A i \in 1..Len(returned[1].df) :
      LET row == returned[1].df[i]
          d == row.formatted_ID
      IN  row.number > 0 =>
            /\ Len(d) >= 2 /\ d[1] = "P" /\ d[2] # "0"
            /\ \A k \in 2..Len(d) : d[k] \in Digits
            /\ RunValue(d, 2, Len(d)) = row.number
            /\ extract_number(d) = row.number

\* C7 witness: the label " 01002 " is keyed 1002 and displayed as "P1002"
C7_Witness ==
  /\ request.doc = ZerosInKeysDoc /\ returned # <<>>
  /\ \E i \in 1..Len(returned[1].df) :
       /\ returned[1].df[i].number = 1002
       /\ returned[1].df[i].formatted_ID = <<"P", "1", "0", "0", "2">>

FirstRow(df, k) == MinOf({i \in 1..Len(df) : df[i].number = k})

\* C8: duplicateKeys is strictly ascending, without repeats, and in the
\* order in which the duplicated keys are first met in the sorted Dataset.
C8_DuplicateKeysAscending ==
  returned # <<>> =>
    LET d == returned[1].result.duplicate_numbers
        df == returned[1].df
    IN  \A a, b \in 1..Len(d) :
          a < b => d[a] < d[b] /\ FirstRow(df, d[a]) < FirstRow(df, d[b])

\* C8 witness: two duplicated keys reported ascending although the larger
\* one came first in the input
C8_Witness ==
  /\ request.doc = InterleavedDoc /\ returned # <<>>
  /\ returned[1].result.duplicate_numbers = <<7, 102>>

====
